---- MODULE Spec2Model ----
(***************************************************************************)
(* Model of sqlrepl's server mode: runServer accepts connections and runs  *)
(* one client.Handle worker per connection; Handle bootstraps a            *)
(* database.Connection from the first line and then answers one line at a  *)
(* time with a length-prefixed frame.                                      *)
(*                                                                         *)
(* Texts (Go strings, byte slices) are sequences of byte values 0..255.    *)
(***************************************************************************)
EXTENDS Integers, Sequences, FiniteSets, TLC

(***************************************************************************)
(* Bounds of the model.                                                    *)
(***************************************************************************)
\* Connections the listener may accept (the domain of the per-worker state).
MaxConns == 2
\* Command lines one client sends after its parameter line.
MaxLines == 3
\* Command lines per client when several clients are connected (SpecMulti).
MultiLines == 1
\* Rows a driver delivers for one statement (SpecExec).
MaxRows == 2
\* Bytes of a statement handed to preQuery (SpecPre).
MaxStmt == 4
\* Command lines the client sends before it closes its side (SpecLive).
LiveLines == 2

(***************************************************************************)
(* Program constants.                                                      *)
(***************************************************************************)
\* '\x1D', the group/batch delimiter
GS == 29
\* '\n', the delimiter of reader.ReadString
NL == 10

DriverUnknown == 0
DriverOracle == 1
DriverMySQL == 2
DriverPostgreSQL == 3
DriverSQLite == 4
DriverSqlServer == 5

(***************************************************************************)
(* Texts used by the model.                                                *)
(***************************************************************************)
\* "oracle", "mysql", "postgres", "sqlite", "sqlserver"
NameOracle == <<111, 114, 97, 99, 108, 101>>
NameMySQL == <<109, 121, 115, 113, 108>>
NamePostgres == <<112, 111, 115, 116, 103, 114, 101, 115>>
NameSQLite == <<115, 113, 108, 105, 116, 101>>
NameSqlServer == <<115, 113, 108, 115, 101, 114, 118, 101, 114>>

\* "Invalid connection parameters"
MsgInvalidParams ==
  <<73, 110, 118, 97, 108, 105, 100, 32, 99, 111, 110, 110, 101, 99, 116,
    105, 111, 110, 32, 112, 97, 114, 97, 109, 101, 116, 101, 114, 115>>

\* "Failed to connect to database"
MsgConnectFailed ==
  <<70, 97, 105, 108, 101, 100, 32, 116, 111, 32, 99, 111, 110, 110, 101,
    99, 116, 32, 116, 111, 32, 100, 97, 116, 97, 98, 97, 115, 101>>

\* "<nil>"
NilText == <<60, 110, 105, 108, 62>>

(***************************************************************************)
(* Byte-level helpers.                                                     *)
(***************************************************************************)
\* The sequence F(1), ..., F(n)
SeqOf(n, F(_)) == IF n = 0 THEN <<>> ELSE [i \in 1..n |-> F(i)]

RECURSIVE Concat(_)
Concat(ss) == IF ss = <<>> THEN <<>> ELSE Head(ss) \o Concat(Tail(ss))

\* The length written least significant byte first
LE32(n) ==
  <<n % 256, (n \div 256) % 256, (n \div 65536) % 256, (n \div 16777216) % 256>>

\* binary.BigEndian.PutUint32(b, uint32(n)), for 0 <= n < 2^31 (a length
\* the checker's integers can hold; uint32(n) = n there)
BE32(n) ==
  <<(n \div 16777216) % 256, (n \div 65536) % 256, (n \div 256) % 256, n % 256>>

\* strings.ToLower on ASCII text
ToLower(s) ==
  SeqOf(Len(s), LAMBDA i : IF s[i] \in 65..90 THEN s[i] + 32 ELSE s[i])

\* A text is acceptable to the protobuf string encoder when it is valid
\* UTF-8; the model's texts are ASCII or hold the byte 255, never valid.
ValidUTF8(s) == \A i \in 1..Len(s) : s[i] < 128

\* strings.ToUpper on ASCII text
ToUpper(s) ==
  SeqOf(Len(s), LAMBDA i : IF s[i] \in 97..122 THEN s[i] - 32 ELSE s[i])

\* fmt.Sprintf("%d", n) for n >= 0
RECURSIVE Decimal(_)
Decimal(n) ==
  IF n < 10 THEN <<48 + n>> ELSE Decimal(n \div 10) \o <<48 + (n % 10)>>

(***************************************************************************)
(* package database                                                        *)
(***************************************************************************)
Drivers ==
  {DriverOracle, DriverMySQL, DriverPostgreSQL, DriverSQLite, DriverSqlServer}

dbDriverNames(d) ==
  CASE d = DriverOracle -> "godror"
    [] d = DriverMySQL -> "mysql"
    [] d = DriverPostgreSQL -> "postgres"
    [] d = DriverSQLite -> "sqlite"
    [] d = DriverSqlServer -> "sqlserver"
    [] OTHER -> "unknown"

dbDriverTypes(name) ==
  CASE name = NameOracle -> DriverOracle
    [] name = NameMySQL -> DriverMySQL
    [] name = NamePostgres -> DriverPostgreSQL
    [] name = NameSQLite -> DriverSQLite
    [] name = NameSqlServer -> DriverSqlServer
    [] OTHER -> DriverUnknown

\* ValidateDBType looking the name up as it was given
ValidateDBTypeExact(dbType) ==
  LET driver == dbDriverTypes(dbType)
  IN  [driver |-> driver, err |-> driver = DriverUnknown]

\* (driver, err) of ValidateDBType(dbType); DriverUnknown is in no map entry,
\* so "not ok" is the lookup answering DriverUnknown.
ValidateDBType(dbType) ==
  LET driver == dbDriverTypes(ToLower(dbType))
  IN  [driver |-> driver, err |-> driver = DriverUnknown]

\* The names under which the imported driver packages register themselves
\* with database/sql.
RegisteredDrivers == {"godror", "mysql", "postgres", "sqlite3", "sqlserver", "mssql"}

\* The zero database.Connection{}
ZeroConnection == [db |-> FALSE, dbType |-> DriverUnknown]

\* Connect(dbType, dbConnString) under the backend's answer env:
\* "openFail" (sql.Open fails), "pingFail" (db.Ping fails) or "ok".
\* handle is what has become of the *sql.DB that sql.Open returned, ops the
\* calls made on the backend: "open" (sql.Open), "ping" (db.Ping), and for
\* Oracle "exec" (db.Exec) and "dbmsOutput" (godror.EnableDbmsOutput).
Connect(dbType, dbConnString, env) ==
  LET v == ValidateDBType(dbType)
  IN  IF v.err
        THEN [err |-> TRUE, conn |-> ZeroConnection, handle |-> "none", ops |-> <<>>]
      ELSE IF dbDriverNames(v.driver) \notin RegisteredDrivers \/ env = "openFail"
        THEN [err |-> TRUE, conn |-> ZeroConnection, handle |-> "none",
              ops |-> <<"open">>]
      ELSE IF env = "pingFail"
        THEN [err |-> TRUE, conn |-> ZeroConnection, handle |-> "open",
              ops |-> <<"open", "ping">>]
      ELSE [err |-> FALSE,
            conn |-> [db |-> TRUE, dbType |-> v.driver],
            handle |-> "open",
            ops |-> IF v.driver = DriverOracle
                      THEN <<"open", "ping", "exec", "dbmsOutput">>
                      ELSE <<"open", "ping">>]

\* preQuery taking every trailing semicolon off an Oracle statement
RECURSIVE StripSemicolons(_)
StripSemicolons(q) ==
  IF Len(q) > 1 /\ q[Len(q)] = 59
    THEN StripSemicolons(SubSeq(q, 1, Len(q) - 1))
    ELSE q

preQueryStripsAll(conn, query) ==
  LET n == Len(query)
  IN  IF conn.dbType = DriverOracle
        THEN IF n > 3 /\ ToUpper(SubSeq(query, n - 2, n)) = <<69, 78, 68>>
               THEN query \o <<59>>
             ELSE StripSemicolons(query)
        ELSE query

\* preQuery rewriting the statement whatever the engine
preQueryEveryEngine(conn, query) ==
  LET n == Len(query)
  IN  IF n > 3 /\ ToUpper(SubSeq(query, n - 2, n)) = <<69, 78, 68>>
        THEN query \o <<59>>
      ELSE IF n > 1 /\ query[n] = 59
        THEN SubSeq(query, 1, n - 1)
      ELSE query

\* preQuery: the statement text handed to the driver
preQuery(conn, query) ==
  LET n == Len(query)
  IN  IF conn.dbType = DriverOracle
        THEN IF n > 3 /\ ToUpper(SubSeq(query, n - 2, n)) = <<69, 78, 68>>
               THEN query \o <<59>>
             ELSE IF n > 1 /\ query[n] = 59
               THEN SubSeq(query, 1, n - 1)
             ELSE query
        ELSE query

\* postQuery under the answer dbms of godror.ReadDbmsOutput:
\* [err, text]. fatal is log.Fatalf, which exits the process.
postQuery(conn, result, dbms) ==
  IF conn.dbType = DriverOracle
    THEN IF dbms.err
           THEN [fatal |-> TRUE, result |-> result]
           ELSE [fatal |-> FALSE, result |-> [result EXCEPT !.Message = dbms.text]]
    ELSE [fatal |-> FALSE, result |-> result]

\* The text of one scanned value: nil renders "<nil>", anything else
\* through fmt.Sprintf("%v", val).
Render(val) ==
  CASE val.kind = "nil" -> NilText
    [] val.kind = "int" -> Decimal(val.n)
    [] OTHER -> val.t

\* One row built by appending the rendered values that are not nil
RowValuesNonNil(columns, row) ==
  LET kept == SelectSeq(row, LAMBDA v : v.kind # "nil")
  IN  SeqOf(Len(kept), LAMBDA i : Render(kept[i]))

\* One row as ExecuteQuery builds it: len(columns) rendered values
RowValues(columns, row) == SeqOf(Len(columns), LAMBDA i : Render(row[i]))

EmptyResult == [Columns |-> <<>>, Rows |-> <<>>, Message |-> <<>>, Error |-> <<>>]

\* ExecuteQuery(query) on conn, the backend answering as script s says:
\*   s.queryErr    error text of QueryContext (a timeout included), <<>> if none
\*   s.columnsErr  error text of rows.Columns, <<>> if none
\*   s.columns     the column names
\*   s.rows        the rows the driver delivers, each len(columns) values
\*   s.scanErrAt   the row whose Scan fails (0: none), s.scanErr its text
\*   s.iterErr     error text of rows.Err after the last row, <<>> if none
\*   s.dbms        the answer of ReadDbmsOutput
\* sent is the statement text handed to QueryContext.
ExecuteQuery(conn, query, s) ==
  LET q == preQuery(conn, query)
      withCols == [EmptyResult EXCEPT !.Columns = s.columns]
      scanned(k) == SeqOf(k, LAMBDA i : RowValues(s.columns, s.rows[i]))
  IN  IF s.queryErr # <<>>
        THEN [fatal |-> FALSE, sent |-> q,
              result |-> [EmptyResult EXCEPT !.Error = s.queryErr]]
      ELSE IF s.columnsErr # <<>>
        THEN [fatal |-> FALSE, sent |-> q,
              result |-> [EmptyResult EXCEPT !.Error = s.columnsErr]]
      ELSE IF s.scanErrAt > 0
        THEN [fatal |-> FALSE, sent |-> q,
              result |-> [withCols EXCEPT !.Rows = scanned(s.scanErrAt - 1),
                                          !.Error = s.scanErr]]
      ELSE IF s.iterErr # <<>>
        THEN [fatal |-> FALSE, sent |-> q,
              result |-> [withCols EXCEPT !.Rows = scanned(Len(s.rows)),
                                          !.Error = s.iterErr]]
      ELSE LET post == postQuery(conn,
                         [withCols EXCEPT !.Rows = scanned(Len(s.rows))], s.dbms)
           IN  [fatal |-> post.fatal, sent |-> q, result |-> post.result]

(***************************************************************************)
(* package protocol: the QueryResult message and its wire encoding         *)
(***************************************************************************)
RECURSIVE Varint(_)
Varint(n) ==
  IF n < 128 THEN <<n>> ELSE <<128 + (n % 128)>> \o Varint(n \div 128)

LenDelim(tag, s) == <<tag>> \o Varint(Len(s)) \o s

MarshalRow(values) ==
  Concat(SeqOf(Len(values), LAMBDA i : LenDelim(10, values[i])))

ResultTexts(r) ==
  {r.Columns[i] : i \in 1..Len(r.Columns)}
    \cup UNION {{r.Rows[i][j] : j \in 1..Len(r.Rows[i])} : i \in 1..Len(r.Rows)}
    \cup {r.Message, r.Error}

\* proto.Marshal(&QueryResult): (bytes, err)
Marshal(r) ==
  IF \E t \in ResultTexts(r) : ~ValidUTF8(t)
    THEN [err |-> TRUE, bytes |-> <<>>]
    ELSE [err |-> FALSE,
          bytes |->
            Concat(SeqOf(Len(r.Columns), LAMBDA i : LenDelim(10, r.Columns[i])))
            \o Concat(SeqOf(Len(r.Rows), LAMBDA i : LenDelim(18, MarshalRow(r.Rows[i]))))
            \o (IF r.Message = <<>> THEN <<>> ELSE LenDelim(26, r.Message))
            \o (IF r.Error = <<>> THEN <<>> ELSE LenDelim(34, r.Error))]

(***************************************************************************)
(* The environment's inputs.                                               *)
(***************************************************************************)
Conns == 1..MaxConns

\* A parameter line: wellformed says whether json.Unmarshal accepts it;
\* a member the JSON text lacks decodes to the empty text.
ParamLine(wf, dbtype) == [wellformed |-> wf, dbtype |-> dbtype, connstring |-> <<120>>]

ParamLines ==
  {ParamLine(FALSE, <<>>),
   ParamLine(TRUE, <<>>),
   ParamLine(TRUE, <<110, 111, 115, 113, 108>>),
   ParamLine(TRUE, <<79, 114, 97, 99, 108, 101>>),
   ParamLine(TRUE, NameMySQL)}

\* json.Unmarshal of the parameter line into protocol.DBParams
Unmarshal(line) ==
  [err |-> ~line.wellformed,
   params |-> [Dbtype |-> line.dbtype, Connstring |-> line.connstring]]

\* Command lines, each with its final newline: a batch-sync line, a
\* batch-sync line with bytes after the delimiter, a statement "S".
CommandLines == {<<GS, NL>>, <<GS, 120, NL>>, <<83, NL>>}

ConnectEnvs == {"openFail", "pingFail", "ok"}

Script(qe, ce, cols, rows, at, ie, dbms) ==
  [queryErr |-> qe, columnsErr |-> ce, columns |-> cols, rows |-> rows,
   scanErrAt |-> at, scanErr |-> <<115>>, iterErr |-> ie, dbms |-> dbms]

\* The values a driver scans into an `any`: nil, an integer, a text
IntVal(n) == [kind |-> "int", n |-> n, t |-> <<>>]
NilVal == [kind |-> "nil", n |-> 0, t |-> <<>>]
StrVal(t) == [kind |-> "string", n |-> 0, t |-> t]

DbmsAnswers ==
  {[err |-> FALSE, text |-> <<>>], [err |-> FALSE, text |-> <<109>>],
   [err |-> TRUE, text |-> <<>>]}

\* The backend's answers to one statement in the command loop: one per path
\* of ExecuteQuery (query error, timeout, Columns error, no columns, a row,
\* a Scan error, an iteration error, a text that is not valid UTF-8).
LoopScripts ==
  {Script(<<101>>, <<>>, <<>>, <<>>, 0, <<>>, d) : d \in {[err |-> FALSE, text |-> <<>>]}}
  \cup {Script(<<>>, <<99>>, <<>>, <<>>, 0, <<>>, d) : d \in {[err |-> FALSE, text |-> <<>>]}}
  \cup {Script(<<>>, <<>>, <<>>, <<>>, 0, <<>>, d) : d \in DbmsAnswers}
  \cup {Script(<<>>, <<>>, << <<99>> >>, << <<IntVal(1)>> >>, 0, <<>>, d) :
          d \in {[err |-> FALSE, text |-> <<>>]}}
  \cup {Script(<<>>, <<>>, << <<99>> >>, << <<NilVal>> >>, 1, <<>>, d) :
          d \in {[err |-> FALSE, text |-> <<>>]}}
  \cup {Script(<<>>, <<>>, << <<99>> >>, << <<IntVal(1)>> >>, 0, <<105>>, d) :
          d \in {[err |-> FALSE, text |-> <<>>]}}
  \cup {Script(<<>>, <<>>, << <<99>> >>, << <<StrVal(<<255>>)>> >>, 0, <<>>, d) :
          d \in {[err |-> FALSE, text |-> <<>>]}}

\* What a driver may answer to one statement, path by path of
\* ExecuteQuery: up to two columns, up to MaxRows rows of integers and
\* nils, a Scan error at any row, an iteration error after the rows.
ColumnLists == {<<>>, << <<99>> >>, << <<99>>, <<100>> >>}

ScanValues == {IntVal(12), NilVal}

RowLists(n) == UNION {[1..k -> [1..n -> ScanValues]] : k \in 0..MaxRows}

NoOutput == [err |-> FALSE, text |-> <<>>]

ExecScripts ==
  {Script(qe, <<>>, <<>>, <<>>, 0, <<>>, NoOutput) : qe \in {<<101>>, <<116>>}}
  \cup {Script(<<>>, <<99>>, <<>>, <<>>, 0, <<>>, NoOutput)}
  \cup UNION {UNION {{Script(<<>>, <<>>, cols, rows, at, ie, d) :
                        at \in 0..Len(rows), ie \in {<<>>, <<105>>}, d \in DbmsAnswers} :
                     rows \in RowLists(Len(cols))} :
              cols \in ColumnLists}

\* The statements SpecPre hands to preQuery: every text of up to MaxStmt
\* of the bytes E n d ; space x, and the lines that carry them
PreBytes == {69, 110, 100, 59, 32, 120}

Statements == UNION {[1..k -> PreBytes] : k \in 0..MaxStmt}

PreLines == {st \o <<NL>> : st \in Statements}

PreNames == {NameOracle, NameMySQL, NamePostgres, NameSQLite, NameSqlServer}

PreScripts ==
  {Script(<<101>>, <<>>, <<>>, <<>>, 0, <<>>, NoOutput),
   Script(<<>>, <<>>, <<>>, <<>>, 0, <<>>, NoOutput),
   Script(<<>>, <<>>, <<>>, <<>>, 0, <<>>, [err |-> FALSE, text |-> <<109>>])}

\* The engine names SpecConnect hands to Connect: the five names in lower
\* case, in upper case and capitalised, and names outside the five: "",
\* "nosql", "sqlite3", "godror", "unknown", "oracle ", "postgresql",
\* "mssql", "oracl"
Capitalised(name) == <<name[1] - 32>> \o Tail(name)

ConnectNames ==
  PreNames
    \cup {ToUpper(n) : n \in PreNames}
    \cup {Capitalised(n) : n \in PreNames}
    \cup {<<>>,
          <<110, 111, 115, 113, 108>>,
          NameSQLite \o <<51>>,
          <<103, 111, 100, 114, 111, 114>>,
          <<117, 110, 107, 110, 111, 119, 110>>,
          NameOracle \o <<32>>,
          NamePostgres \o <<113, 108>>,
          <<109, 115, 115, 113, 108>>,
          <<111, 114, 97, 99, 108>>}

ConnectParamLines ==
  {ParamLine(TRUE, n) : n \in ConnectNames} \cup {ParamLine(FALSE, <<>>)}

\* The parameter lines of the sessions SpecExec runs statements on
ExecNames == {<<79, 114, 97, 99, 108, 101>>, NameMySQL}

(***************************************************************************)
(* State.                                                                  *)
(***************************************************************************)
VARIABLES
  proc,          \* "running" or "exited": the server process
  backlog,       \* clients yet to be accepted by runServer
  quota,         \* command lines each client may still be going to send
  pc,            \* each worker's place in Handle
  conn,          \* each net.Conn: "none", "open", "closed"
  peer,          \* each client's side: "open", "closed", "partial"
  paramsIn,      \* the parameter line in the socket buffer, if any
  inbuf,         \* complete command lines in the socket buffer
  nsent,         \* lines the client has sent, the parameter line included
  paramsJSON,    \* Handle's paramsJSON, once read
  handle,        \* the *sql.DB that sql.Open returned: "none", "open", "closed"
  dbconn,        \* Handle's dbconn
  dbops,         \* the calls Connect made on the backend
  nread,         \* command lines read so far
  query,         \* Handle's query: the line last read, trimmed once executed
  result,        \* Handle's result for that line
  responseBytes, \* Handle's responseBytes for that line
  writes,        \* every conn.Write so far: [line, bytes, ok]
  calls          \* every statement handed to the driver: [line, sent]

vars ==
  <<proc, backlog, quota, pc, conn, peer, paramsIn, inbuf, nsent, paramsJSON,
    handle, dbconn, dbops, nread, query, result, responseBytes, writes, calls>>

clientVars == <<peer, paramsIn, inbuf, nsent>>
localVars == <<query, result, responseBytes>>

InitWith(clients, lines) ==
  /\ proc = "running"
  /\ backlog = clients
  /\ quota = lines
  /\ pc = [w \in Conns |-> "idle"]
  /\ conn = [w \in Conns |-> "none"]
  /\ peer = [w \in Conns |-> "open"]
  /\ paramsIn = [w \in Conns |-> <<>>]
  /\ inbuf = [w \in Conns |-> <<>>]
  /\ nsent = [w \in Conns |-> 0]
  /\ paramsJSON = [w \in Conns |-> <<>>]
  /\ handle = [w \in Conns |-> "none"]
  /\ dbconn = [w \in Conns |-> ZeroConnection]
  /\ dbops = [w \in Conns |-> <<>>]
  /\ nread = [w \in Conns |-> 0]
  /\ query = [w \in Conns |-> <<>>]
  /\ result = [w \in Conns |-> EmptyResult]
  /\ responseBytes = [w \in Conns |-> <<>>]
  /\ writes = [w \in Conns |-> <<>>]
  /\ calls = [w \in Conns |-> <<>>]

Init == InitWith(1, MaxLines)

InitMulti == InitWith(MaxConns, MultiLines)

InitLive == InitWith(1, LiveLines)

\* One worker in the command loop, about to execute its first command
\* line: it was accepted, read a parameter line naming one of names,
\* Connect succeeded, and line 56 answered with one of lines.
InitInLoop(names, lines) ==
  \E name \in names, line \in lines :
    LET p == ParamLine(TRUE, name)
        c == Connect(name, p.connstring, "ok")
        only(x, none) == [w \in Conns |-> IF w = 1 THEN x ELSE none]
    IN  /\ ~c.err
        /\ proc = "running"
        /\ backlog = 0
        /\ quota = 1
        /\ pc = only("exec", "idle")
        /\ conn = only("open", "none")
        /\ peer = [w \in Conns |-> "open"]
        /\ paramsIn = [w \in Conns |-> <<>>]
        /\ inbuf = [w \in Conns |-> <<>>]
        /\ nsent = only(2, 0)
        /\ paramsJSON = only(<<p>>, <<>>)
        /\ handle = only(c.handle, "none")
        /\ dbconn = only(c.conn, ZeroConnection)
        /\ dbops = only(c.ops, <<>>)
        /\ nread = only(1, 0)
        /\ query = only(line, <<>>)
        /\ result = [w \in Conns |-> EmptyResult]
        /\ responseBytes = [w \in Conns |-> <<>>]
        /\ writes = [w \in Conns |-> <<>>]
        /\ calls = [w \in Conns |-> <<>>]

InitExec == InitInLoop(ExecNames, {<<83, NL>>})

InitPre == InitInLoop(PreNames, PreLines)

\* One worker that has read its parameter line, one of ConnectParamLines
InitConnect ==
  \E p \in ConnectParamLines :
    LET only(x, none) == [w \in Conns |-> IF w = 1 THEN x ELSE none]
    IN  /\ proc = "running"
        /\ backlog = 0
        /\ quota = 0
        /\ pc = only("bootstrap", "idle")
        /\ conn = only("open", "none")
        /\ peer = [w \in Conns |-> "open"]
        /\ paramsIn = [w \in Conns |-> <<>>]
        /\ inbuf = [w \in Conns |-> <<>>]
        /\ nsent = only(1, 0)
        /\ paramsJSON = only(<<p>>, <<>>)
        /\ handle = [w \in Conns |-> "none"]
        /\ dbconn = [w \in Conns |-> ZeroConnection]
        /\ dbops = [w \in Conns |-> <<>>]
        /\ nread = [w \in Conns |-> 0]
        /\ query = [w \in Conns |-> <<>>]
        /\ result = [w \in Conns |-> EmptyResult]
        /\ responseBytes = [w \in Conns |-> <<>>]
        /\ writes = [w \in Conns |-> <<>>]
        /\ calls = [w \in Conns |-> <<>>]

(***************************************************************************)
(* Helpers of the actions.                                                 *)
(***************************************************************************)
\* conn.Write(bytes) by worker w, answered ok or with an error
Written(w, bytes, ok) ==
  Append(writes[w], [line |-> nread[w], bytes |-> bytes, ok |-> ok])

\* The bytes the peer of w has been sent
Wire(w) ==
  Concat(SeqOf(Len(writes[w]),
                LAMBDA i : IF writes[w][i].ok THEN writes[w][i].bytes ELSE <<>>))

\* Handle returns: its deferred calls run, dbconn.Close() if it was
\* deferred (closeDb), then conn.Close(), which drops what the socket
\* buffer still holds.
Return(w, closeDb) ==
  /\ pc' = [pc EXCEPT ![w] = "closed"]
  /\ conn' = [conn EXCEPT ![w] = "closed"]
  /\ paramsIn' = [paramsIn EXCEPT ![w] = <<>>]
  /\ inbuf' = [inbuf EXCEPT ![w] = <<>>]
  /\ handle' = IF closeDb THEN [handle EXCEPT ![w] = "closed"] ELSE handle
  /\ query' = [query EXCEPT ![w] = <<>>]
  /\ result' = [result EXCEPT ![w] = EmptyResult]
  /\ responseBytes' = [responseBytes EXCEPT ![w] = <<>>]

\* log.Fatalf, or a panic no one recovers: the process exits, every worker
\* with it, and no deferred call runs.
ProcessExit ==
  /\ proc' = "exited"
  /\ pc' = [v \in Conns |-> IF pc[v] \in {"idle", "closed"} THEN pc[v] ELSE "killed"]
  /\ conn' = [v \in Conns |-> IF conn[v] = "open" THEN "closed" ELSE conn[v]]
  /\ paramsIn' = [v \in Conns |-> <<>>]
  /\ inbuf' = [v \in Conns |-> <<>>]

\* sendError without its second write
sendErrorNoNewline(w, message, ok1, ok2) ==
  writes' = [writes EXCEPT ![w] =
    Append(writes[w],
           [line |-> nread[w],
            bytes |-> Marshal([EmptyResult EXCEPT !.Error = message]).bytes,
            ok |-> ok1])]

\* sendError(conn, message): two writes, neither checked
sendError(w, message, ok1, ok2) ==
  writes' = [writes EXCEPT ![w] =
    writes[w]
      \o <<[line |-> nread[w],
            bytes |-> Marshal([EmptyResult EXCEPT !.Error = message]).bytes,
            ok |-> ok1],
           [line |-> nread[w], bytes |-> <<NL>>, ok |-> ok2]>>]

\* Lines 89-103 of Handle: the protocol.QueryResult built from result,
\* each row copied by column index.
ProtoResult(r) ==
  [Columns |-> r.Columns,
   Rows |-> SeqOf(Len(r.Rows),
              LAMBDA k : SeqOf(Len(r.Columns), LAMBDA i : r.Rows[k][i])),
   Message |-> r.Message,
   Error |-> r.Error]

\* row.Values[i] is out of range for some row: a run-time panic
CopyPanics(r) == \E k \in 1..Len(r.Rows) : Len(r.Rows[k]) < Len(r.Columns)

\* The test of line 66 asking for the delimiter alone on its line
IsBatchSyncExact(line) == line = <<GS, NL>>

\* The test of line 66
IsBatchSync(line) == Len(line) > 0 /\ line[1] = GS

(***************************************************************************)
(* The clients.                                                            *)
(***************************************************************************)
ClientSendParams(w, p) ==
  /\ conn[w] = "open" /\ peer[w] = "open" /\ nsent[w] = 0
  /\ paramsIn' = [paramsIn EXCEPT ![w] = <<p>>]
  /\ nsent' = [nsent EXCEPT ![w] = 1]
  /\ UNCHANGED <<proc, backlog, quota, pc, conn, peer, inbuf, paramsJSON, handle,
                 dbconn, dbops, nread, localVars, writes, calls>>

ClientSend(w, line) ==
  /\ conn[w] = "open" /\ peer[w] = "open"
  /\ nsent[w] >= 1 /\ nsent[w] - 1 < quota
  /\ inbuf' = [inbuf EXCEPT ![w] = Append(inbuf[w], line)]
  /\ nsent' = [nsent EXCEPT ![w] = nsent[w] + 1]
  /\ UNCHANGED <<proc, backlog, quota, pc, conn, peer, paramsIn, paramsJSON, handle,
                 dbconn, dbops, nread, localVars, writes, calls>>

\* The client closes its side, after a complete line ("closed") or after
\* bytes with no newline behind them ("partial").
ClientClose(w, how) ==
  /\ conn[w] = "open" /\ peer[w] = "open"
  /\ peer' = [peer EXCEPT ![w] = how]
  /\ UNCHANGED <<proc, backlog, quota, pc, conn, paramsIn, inbuf, nsent, paramsJSON,
                 handle, dbconn, dbops, nread, localVars, writes, calls>>

(***************************************************************************)
(* runServer and Handle.                                                   *)
(***************************************************************************)
\* listener.Accept() answers; go client.Handle(conn)
Accept(w) ==
  /\ proc = "running" /\ backlog > 0
  /\ pc[w] = "idle" /\ \A v \in Conns : v < w => pc[v] # "idle"
  /\ backlog' = backlog - 1
  /\ pc' = [pc EXCEPT ![w] = "params"]
  /\ conn' = [conn EXCEPT ![w] = "open"]
  /\ UNCHANGED <<proc, quota, clientVars, paramsJSON, handle, dbconn, dbops, nread,
                 localVars, writes, calls>>

\* Line 29 answers with a complete line
ReadParams(w) ==
  /\ proc = "running" /\ pc[w] = "params" /\ paramsIn[w] # <<>>
  /\ paramsJSON' = [paramsJSON EXCEPT ![w] = paramsIn[w]]
  /\ paramsIn' = [paramsIn EXCEPT ![w] = <<>>]
  /\ pc' = [pc EXCEPT ![w] = "bootstrap"]
  /\ UNCHANGED <<proc, backlog, quota, conn, peer, inbuf, nsent, handle, dbconn,
                 dbops, nread, localVars, writes, calls>>

\* Line 29 fails and the failure is reported to the peer
ReadParamsFailReports(w, eof) ==
  /\ proc = "running" /\ pc[w] = "params"
  /\ eof => paramsIn[w] = <<>> /\ peer[w] # "open"
  /\ sendError(w, MsgInvalidParams, TRUE, TRUE)
  /\ Return(w, FALSE)
  /\ UNCHANGED <<proc, backlog, quota, peer, nsent, paramsJSON, dbconn, dbops, nread,
                 calls>>

\* Line 29 answers io.EOF (the peer closed before a newline) or another
\* read error
ReadParamsFail(w, eof) ==
  /\ proc = "running" /\ pc[w] = "params"
  /\ eof => paramsIn[w] = <<>> /\ peer[w] # "open"
  /\ Return(w, FALSE)
  /\ UNCHANGED <<proc, backlog, quota, peer, nsent, paramsJSON, dbconn, dbops, nread,
                 writes, calls>>

\* Lines 36-42: the parameter line does not decode
BootstrapInvalid(w, ok1, ok2) ==
  /\ proc = "running" /\ pc[w] = "bootstrap"
  /\ Unmarshal(paramsJSON[w][1]).err
  /\ sendError(w, MsgInvalidParams, ok1, ok2)
  /\ Return(w, FALSE)
  /\ UNCHANGED <<proc, backlog, quota, peer, nsent, paramsJSON, dbconn, dbops, nread, calls>>

\* Lines 44-51 reporting the failure of Connect as that of the decoding
BootstrapConnectFailAsInvalid(w, env, ok1, ok2) ==
  LET u == Unmarshal(paramsJSON[w][1])
      c == Connect(u.params.Dbtype, u.params.Connstring, env)
  IN  /\ proc = "running" /\ pc[w] = "bootstrap"
      /\ ~u.err /\ c.err
      /\ sendError(w, MsgInvalidParams, ok1, ok2)
      /\ pc' = [pc EXCEPT ![w] = "closed"]
      /\ conn' = [conn EXCEPT ![w] = "closed"]
      /\ paramsIn' = [paramsIn EXCEPT ![w] = <<>>]
      /\ inbuf' = [inbuf EXCEPT ![w] = <<>>]
      /\ handle' = [handle EXCEPT ![w] = c.handle]
      /\ dbops' = [dbops EXCEPT ![w] = c.ops]
      /\ UNCHANGED <<proc, backlog, quota, peer, nsent, paramsJSON, dbconn, nread,
                     localVars, calls>>

\* Lines 44-51: Connect fails
BootstrapConnectFail(w, env, ok1, ok2) ==
  LET u == Unmarshal(paramsJSON[w][1])
      c == Connect(u.params.Dbtype, u.params.Connstring, env)
  IN  /\ proc = "running" /\ pc[w] = "bootstrap"
      /\ ~u.err /\ c.err
      /\ sendError(w, MsgConnectFailed, ok1, ok2)
      /\ pc' = [pc EXCEPT ![w] = "closed"]
      /\ conn' = [conn EXCEPT ![w] = "closed"]
      /\ paramsIn' = [paramsIn EXCEPT ![w] = <<>>]
      /\ inbuf' = [inbuf EXCEPT ![w] = <<>>]
      /\ handle' = [handle EXCEPT ![w] = c.handle]
      /\ dbops' = [dbops EXCEPT ![w] = c.ops]
      /\ UNCHANGED <<proc, backlog, quota, peer, nsent, paramsJSON, dbconn, nread,
                     localVars, calls>>

\* Lines 44-52 answering a successful Connect with an empty line
BootstrapConnectAcks(w, env) ==
  LET u == Unmarshal(paramsJSON[w][1])
      c == Connect(u.params.Dbtype, u.params.Connstring, env)
  IN  /\ proc = "running" /\ pc[w] = "bootstrap"
      /\ ~u.err /\ ~c.err
      /\ dbconn' = [dbconn EXCEPT ![w] = c.conn]
      /\ handle' = [handle EXCEPT ![w] = c.handle]
      /\ dbops' = [dbops EXCEPT ![w] = c.ops]
      /\ writes' = [writes EXCEPT ![w] = Written(w, <<NL>>, TRUE)]
      /\ pc' = [pc EXCEPT ![w] = "read"]
      /\ UNCHANGED <<proc, backlog, quota, conn, clientVars, paramsJSON, nread,
                     localVars, calls>>

\* Lines 44-52: Connect succeeds, dbconn.Close() is deferred
BootstrapConnect(w, env) ==
  LET u == Unmarshal(paramsJSON[w][1])
      c == Connect(u.params.Dbtype, u.params.Connstring, env)
  IN  /\ proc = "running" /\ pc[w] = "bootstrap"
      /\ ~u.err /\ ~c.err
      /\ dbconn' = [dbconn EXCEPT ![w] = c.conn]
      /\ handle' = [handle EXCEPT ![w] = c.handle]
      /\ dbops' = [dbops EXCEPT ![w] = c.ops]
      /\ pc' = [pc EXCEPT ![w] = "read"]
      /\ UNCHANGED <<proc, backlog, quota, conn, clientVars, paramsJSON, nread,
                     localVars, writes, calls>>

\* Line 56 answers with a complete line; line 66 classifies it
ReadLine(w) ==
  /\ proc = "running" /\ pc[w] = "read" /\ inbuf[w] # <<>>
  /\ inbuf' = [inbuf EXCEPT ![w] = Tail(inbuf[w])]
  /\ nread' = [nread EXCEPT ![w] = nread[w] + 1]
  /\ query' = [query EXCEPT ![w] = Head(inbuf[w])]
  /\ result' = [result EXCEPT ![w] = EmptyResult]
  /\ responseBytes' = [responseBytes EXCEPT ![w] = <<>>]
  /\ pc' = [pc EXCEPT ![w] = IF IsBatchSync(Head(inbuf[w])) THEN "syncLen" ELSE "exec"]
  /\ UNCHANGED <<proc, backlog, quota, conn, peer, paramsIn, nsent, paramsJSON,
                 handle, dbconn, dbops, writes, calls>>

\* Line 56 fails and the loop goes round again
ReadLineFailContinues(w, eof) ==
  /\ proc = "running" /\ pc[w] = "read"
  /\ eof => inbuf[w] = <<>> /\ peer[w] # "open"
  /\ UNCHANGED vars

\* Line 56 answers io.EOF or another read error
ReadLineFail(w, eof) ==
  /\ proc = "running" /\ pc[w] = "read"
  /\ eof => inbuf[w] = <<>> /\ peer[w] # "open"
  /\ Return(w, TRUE)
  /\ UNCHANGED <<proc, backlog, quota, peer, nsent, paramsJSON, dbconn, dbops, nread,
                 writes, calls>>

\* Lines 69-77: the length of the batch-sync frame
SyncLength(w, ok) ==
  LET bytes == <<GS>>
  IN  /\ proc = "running" /\ pc[w] = "syncLen"
      /\ writes' = [writes EXCEPT ![w] = Written(w, BE32(Len(bytes)), ok)]
      /\ IF ok
           THEN /\ pc' = [pc EXCEPT ![w] = "syncPayload"]
                /\ UNCHANGED <<conn, paramsIn, inbuf, handle, localVars>>
           ELSE Return(w, TRUE)
      /\ UNCHANGED <<proc, backlog, quota, peer, nsent, paramsJSON, dbconn, dbops, nread, calls>>

\* Lines 82-83: the delimiter; the answer of Write is not looked at
SyncPayload(w, ok) ==
  LET bytes == <<GS>>
  IN  /\ proc = "running" /\ pc[w] = "syncPayload"
      /\ writes' = [writes EXCEPT ![w] = Written(w, bytes, ok)]
      /\ pc' = [pc EXCEPT ![w] = "read"]
      /\ UNCHANGED <<proc, backlog, quota, conn, clientVars, paramsJSON, handle,
                     dbconn, dbops, nread, localVars, calls>>

\* Lines 86-87 with a failed statement ending the worker
ExecuteStopsOnError(w, s) ==
  LET text == SubSeq(query[w], 1, Len(query[w]) - 1)
      r == ExecuteQuery(dbconn[w], text, s)
  IN  /\ proc = "running" /\ pc[w] = "exec"
      /\ calls' = [calls EXCEPT ![w] = Append(calls[w], [line |-> nread[w], sent |-> r.sent])]
      /\ IF r.fatal
           THEN /\ ProcessExit
                /\ UNCHANGED <<handle, localVars>>
         ELSE IF r.result.Error # <<>>
           THEN /\ Return(w, TRUE)
                /\ UNCHANGED proc
           ELSE /\ result' = [result EXCEPT ![w] = r.result]
                /\ query' = [query EXCEPT ![w] = text]
                /\ pc' = [pc EXCEPT ![w] = "marshal"]
                /\ UNCHANGED <<proc, conn, paramsIn, inbuf, handle, responseBytes>>
      /\ UNCHANGED <<backlog, quota, peer, nsent, paramsJSON, dbconn, dbops, nread, writes>>

\* Lines 86-87: the statement runs
Execute(w, s) ==
  LET text == SubSeq(query[w], 1, Len(query[w]) - 1)
      r == ExecuteQuery(dbconn[w], text, s)
  IN  /\ proc = "running" /\ pc[w] = "exec"
      /\ calls' = [calls EXCEPT ![w] = Append(calls[w], [line |-> nread[w], sent |-> r.sent])]
      /\ IF r.fatal
           THEN /\ ProcessExit
                /\ UNCHANGED <<handle, localVars>>
           ELSE /\ result' = [result EXCEPT ![w] = r.result]
                /\ query' = [query EXCEPT ![w] = text]
                /\ pc' = [pc EXCEPT ![w] = "marshal"]
                /\ UNCHANGED <<proc, conn, paramsIn, inbuf, handle, responseBytes>>
      /\ UNCHANGED <<backlog, quota, peer, nsent, paramsJSON, dbconn, dbops, nread, writes>>

\* Lines 89-110 going on to the writes when proto.Marshal fails
SerializeIgnoresError(w) ==
  LET m == Marshal(ProtoResult(result[w]))
  IN  /\ proc = "running" /\ pc[w] = "marshal"
      /\ IF CopyPanics(result[w])
           THEN /\ ProcessExit
                /\ UNCHANGED <<handle, localVars>>
           ELSE /\ responseBytes' = [responseBytes EXCEPT ![w] = m.bytes]
                /\ pc' = [pc EXCEPT ![w] = "stmtLen"]
                /\ UNCHANGED <<proc, conn, paramsIn, inbuf, handle, query, result>>
      /\ UNCHANGED <<backlog, quota, peer, nsent, paramsJSON, dbconn, dbops, nread, writes, calls>>

\* Lines 89-110: the result is copied and serialized
Serialize(w) ==
  LET m == Marshal(ProtoResult(result[w]))
  IN  /\ proc = "running" /\ pc[w] = "marshal"
      /\ IF CopyPanics(result[w])
           THEN /\ ProcessExit
                /\ UNCHANGED <<handle, localVars>>
         ELSE IF m.err
           THEN /\ Return(w, TRUE)
                /\ UNCHANGED proc
           ELSE /\ responseBytes' = [responseBytes EXCEPT ![w] = m.bytes]
                /\ pc' = [pc EXCEPT ![w] = "stmtLen"]
                /\ UNCHANGED <<proc, conn, paramsIn, inbuf, handle, query, result>>
      /\ UNCHANGED <<backlog, quota, peer, nsent, paramsJSON, dbconn, dbops, nread, writes, calls>>

\* Lines 114-123: the length of the statement's frame
StatementLength(w, ok) ==
  /\ proc = "running" /\ pc[w] = "stmtLen"
  /\ writes' = [writes EXCEPT ![w] = Written(w, BE32(Len(responseBytes[w])), ok)]
  /\ IF ok
       THEN /\ pc' = [pc EXCEPT ![w] = "stmtPayload"]
            /\ UNCHANGED <<conn, paramsIn, inbuf, handle, localVars>>
       ELSE Return(w, TRUE)
  /\ UNCHANGED <<proc, backlog, quota, peer, nsent, paramsJSON, dbconn, dbops, nread, calls>>

\* Lines 125-129 with the answer of Write not looked at
StatementPayloadUnchecked(w, ok) ==
  /\ proc = "running" /\ pc[w] = "stmtPayload"
  /\ writes' = [writes EXCEPT ![w] = Written(w, responseBytes[w], ok)]
  /\ pc' = [pc EXCEPT ![w] = "read"]
  /\ UNCHANGED <<proc, backlog, quota, conn, clientVars, paramsJSON, handle,
                 dbconn, dbops, nread, localVars, calls>>

\* Lines 125-129: the statement's payload
StatementPayload(w, ok) ==
  /\ proc = "running" /\ pc[w] = "stmtPayload"
  /\ writes' = [writes EXCEPT ![w] = Written(w, responseBytes[w], ok)]
  /\ IF ok
       THEN /\ pc' = [pc EXCEPT ![w] = "read"]
            /\ UNCHANGED <<conn, paramsIn, inbuf, handle, localVars>>
       ELSE Return(w, TRUE)
  /\ UNCHANGED <<proc, backlog, quota, peer, nsent, paramsJSON, dbconn, dbops, nread, calls>>

Next ==
  \/ \E w \in Conns : Accept(w)
  \/ \E w \in Conns, p \in ParamLines : ClientSendParams(w, p)
  \/ \E w \in Conns, line \in CommandLines : ClientSend(w, line)
  \/ \E w \in Conns, how \in {"closed", "partial"} : ClientClose(w, how)
  \/ \E w \in Conns : ReadParams(w)
  \/ \E w \in Conns, eof \in BOOLEAN : ReadParamsFail(w, eof)
  \/ \E w \in Conns, ok1 \in BOOLEAN, ok2 \in BOOLEAN : BootstrapInvalid(w, ok1, ok2)
  \/ \E w \in Conns, env \in ConnectEnvs, ok1 \in BOOLEAN, ok2 \in BOOLEAN :
       BootstrapConnectFail(w, env, ok1, ok2)
  \/ \E w \in Conns, env \in ConnectEnvs : BootstrapConnect(w, env)
  \/ \E w \in Conns : ReadLine(w)
  \/ \E w \in Conns, eof \in BOOLEAN : ReadLineFail(w, eof)
  \/ \E w \in Conns, ok \in BOOLEAN : SyncLength(w, ok)
  \/ \E w \in Conns, ok \in BOOLEAN : SyncPayload(w, ok)
  \/ \E w \in Conns, s \in LoopScripts : Execute(w, s)
  \/ \E w \in Conns : Serialize(w)
  \/ \E w \in Conns, ok \in BOOLEAN : StatementLength(w, ok)
  \/ \E w \in Conns, ok \in BOOLEAN : StatementPayload(w, ok)

Spec == Init /\ [][Next]_vars

SpecMulti == InitMulti /\ [][Next]_vars

\* The steps of worker w that are a read, a statement execution or a
\* write completing: a read completes with a line that has arrived, or
\* with io.EOF once the peer has closed its side.
Completes(w) ==
  \/ ReadParams(w)
  \/ ReadParamsFail(w, TRUE)
  \/ \E ok1 \in BOOLEAN, ok2 \in BOOLEAN : BootstrapInvalid(w, ok1, ok2)
  \/ \E env \in ConnectEnvs, ok1 \in BOOLEAN, ok2 \in BOOLEAN :
       BootstrapConnectFail(w, env, ok1, ok2)
  \/ \E env \in ConnectEnvs : BootstrapConnect(w, env)
  \/ ReadLine(w)
  \/ ReadLineFail(w, TRUE)
  \/ \E ok \in BOOLEAN : SyncLength(w, ok)
  \/ \E ok \in BOOLEAN : SyncPayload(w, ok)
  \/ \E s \in LoopScripts : Execute(w, s)
  \/ Serialize(w)
  \/ \E ok \in BOOLEAN : StatementLength(w, ok)
  \/ \E ok \in BOOLEAN : StatementPayload(w, ok)

\* The server with every goroutine scheduled and every read, execution
\* and write of a worker completing in the end
SpecLive == InitLive /\ [][Next]_vars /\ \A w \in Conns : WF_vars(Completes(w))

\* One statement from ExecuteQuery to the end of its response, the driver
\* answering in every way of ExecScripts
NextExec ==
  \/ \E w \in Conns, s \in ExecScripts : Execute(w, s)
  \/ \E w \in Conns : Serialize(w)
  \/ \E w \in Conns, ok \in BOOLEAN : StatementLength(w, ok)
  \/ \E w \in Conns, ok \in BOOLEAN : StatementPayload(w, ok)

SpecExec == InitExec /\ [][NextExec]_vars

\* Lines 36-52 alone, for every parameter line of ConnectParamLines
NextConnect ==
  \/ \E w \in Conns, ok1 \in BOOLEAN, ok2 \in BOOLEAN : BootstrapInvalid(w, ok1, ok2)
  \/ \E w \in Conns, env \in ConnectEnvs, ok1 \in BOOLEAN, ok2 \in BOOLEAN :
       BootstrapConnectFail(w, env, ok1, ok2)
  \/ \E w \in Conns, env \in ConnectEnvs : BootstrapConnect(w, env)

SpecConnect == InitConnect /\ [][NextConnect]_vars

\* Lines 86-87 alone, for every statement of PreLines on every session
\* Connect establishes
NextPre == \E w \in Conns, s \in PreScripts : Execute(w, s)

SpecPre == InitPre /\ [][NextPre]_vars

(***************************************************************************)
(* What the properties read off the state.                                 *)
(***************************************************************************)
LoopPcs == {"read", "syncLen", "syncPayload", "exec", "marshal", "stmtLen", "stmtPayload"}

\* The writes made for command line k (k = 0: during bootstrap)
WritesOf(w, k) == SelectSeq(writes[w], LAMBDA x : x.line = k)

\* The command lines whose handling has ended
Handled(w) == IF pc[w] = "read" THEN nread[w] ELSE nread[w] - 1

\* The unsigned value of 4 bytes read most significant byte first
U32(b) == b[1] * 16777216 + b[2] * 65536 + b[3] * 256 + b[4]

\* Two successful writes: 4 bytes of length, then that many bytes
CompleteFrame(ws) ==
  /\ Len(ws) = 2
  /\ ws[1].ok /\ ws[2].ok
  /\ Len(ws[1].bytes) = 4
  /\ U32(ws[1].bytes) = Len(ws[2].bytes)

\* bytes is a run of frames, each a 4-byte big-endian length and that many
\* bytes of payload
RECURSIVE Framed(_)
Framed(bytes) ==
  \/ bytes = <<>>
  \/ /\ Len(bytes) >= 4
     /\ bytes[1] < 128
     /\ Len(bytes) >= 4 + U32(SubSeq(bytes, 1, 4))
     /\ Framed(SubSeq(bytes, 5 + U32(SubSeq(bytes, 1, 4)), Len(bytes)))

AllWritesOk(w) == \A i \in 1..Len(writes[w]) : writes[w][i].ok

\* The line last read by w starts with the byte 0x1D
LastLineIsSync(w) == nread[w] >= 1 /\ Len(query[w]) > 0 /\ query[w][1] = 29

\* Command line k of w was handed to ExecuteQuery
WasExecuted(w, k) == \E i \in 1..Len(calls[w]) : calls[w][i].line = k

(***************************************************************************)
(* C1: whenever the worker is about to read a line or is handling one,     *)
(* every line it read before has exactly one frame, written complete (its  *)
(* length and its whole payload), and the frames lie on the connection in  *)
(* the order of the lines.  Fails: the Write of the batch-sync payload     *)
(* (line 82) is not checked, see C9.                                       *)
(***************************************************************************)
C1_FramePerLineBeforeNextRead ==
  \A w \in Conns :
    pc[w] \in LoopPcs =>
      /\ \A k \in 1..Handled(w) : CompleteFrame(WritesOf(w, k))
      /\ \A i \in 1..Len(writes[w]) - 1 : writes[w][i].line <= writes[w][i + 1].line

(***************************************************************************)
(* C2: a line whose first byte is 0x1D, whatever follows it, is answered   *)
(* with the writes 00 00 00 01 and then 1D and with nothing else, and      *)
(* ExecuteQuery is not called for it.                                      *)
(***************************************************************************)
C2_BatchSyncFrame ==
  \A w \in Conns :
    (pc[w] \in LoopPcs /\ LastLineIsSync(w)) =>
      LET ws == WritesOf(w, nread[w])
      IN  /\ ~WasExecuted(w, nread[w])
          /\ pc[w] \in {"syncLen", "syncPayload", "read"}
          /\ pc[w] = "syncLen" => ws = <<>>
          /\ pc[w] = "syncPayload" =>
               /\ Len(ws) = 1
               /\ ws[1].bytes = <<0, 0, 0, 1>> /\ ws[1].ok
          /\ pc[w] = "read" =>
               /\ Len(ws) = 2
               /\ ws[1].bytes = <<0, 0, 0, 1>> /\ ws[1].ok
               /\ ws[2].bytes = <<29>>
               /\ ws[2].ok =>
                    SubSeq(Wire(w), Len(Wire(w)) - 4, Len(Wire(w))) = <<0, 0, 0, 1, 29>>

C2_Witness ==
  \E w \in Conns :
    /\ pc[w] = "read" /\ query[w] = <<29, 120, 10>>
    /\ dbconn[w].dbType = DriverOracle
    /\ Len(calls[w]) = 1
    /\ writes[w][Len(writes[w])].ok

(***************************************************************************)
(* C3: when N statement lines were followed by one batch-sync line, at     *)
(* every moment of writing the sync frame each of the N statements has its *)
(* complete frame on the connection, and once the sync frame is written    *)
(* the peer has been sent exactly N+1 frames, the sync frame last.         *)
(***************************************************************************)
C3_SyncIsBarrier ==
  \A w \in Conns :
    (/\ pc[w] \in {"syncLen", "syncPayload", "read"}
     /\ LastLineIsSync(w)
     /\ \A k \in 1..nread[w] - 1 : WasExecuted(w, k)) =>
      /\ \A k \in 1..nread[w] - 1 : CompleteFrame(WritesOf(w, k))
      /\ (pc[w] = "read" /\ writes[w][Len(writes[w])].ok) =>
           /\ Len(writes[w]) = 2 * nread[w]
           /\ CompleteFrame(WritesOf(w, nread[w]))
           /\ Framed(Wire(w))
           /\ SubSeq(Wire(w), Len(Wire(w)) - 4, Len(Wire(w))) = <<0, 0, 0, 1, 29>>

C3_Witness ==
  \E w \in Conns :
    /\ pc[w] = "read" /\ LastLineIsSync(w)
    /\ nread[w] = 3 /\ WasExecuted(w, 1) /\ WasExecuted(w, 2)
    /\ Len(writes[w]) = 6 /\ writes[w][6].ok

(***************************************************************************)
(* C4: a statement line is answered with a write of 4 bytes, the           *)
(* big-endian length of the serialized result, and after it a write of the *)
(* serialized result, which has exactly that length.                       *)
(***************************************************************************)
C4_StatementFrame ==
  \A w \in Conns :
    (pc[w] \in LoopPcs /\ nread[w] >= 1 /\ ~LastLineIsSync(w)) =>
      LET ws == WritesOf(w, nread[w])
          payload == Marshal(ProtoResult(result[w])).bytes
      IN  /\ pc[w] \in {"exec", "marshal", "stmtLen"} => ws = <<>>
          /\ pc[w] \in {"stmtLen", "stmtPayload", "read"} => responseBytes[w] = payload
          /\ pc[w] \in {"stmtPayload", "read"} =>
               /\ Len(ws) >= 1
               /\ ws[1].ok
               /\ Len(ws[1].bytes) = 4
               /\ U32(ws[1].bytes) = Len(payload)
          /\ pc[w] = "stmtPayload" => Len(ws) = 1
          /\ pc[w] = "read" =>
               /\ Len(ws) = 2
               /\ ws[2].bytes = payload /\ ws[2].ok

C4_Witness ==
  \E w \in Conns :
    /\ pc[w] = "read" /\ nread[w] >= 1 /\ ~LastLineIsSync(w)
    /\ result[w].Rows # <<>>
    /\ Len(responseBytes[w]) > 0
    /\ writes[w][Len(writes[w])].bytes = responseBytes[w]

(***************************************************************************)
(* C5 as claimed: whenever no write has failed and the worker is between   *)
(* responses, all it has sent the peer is a run of frames, the response of *)
(* sendError included.                                                     *)
(***************************************************************************)
C5_EveryResponseFramed ==
  \A w \in Conns :
    (AllWritesOk(w) /\ pc[w] \in {"read", "closed"}) => Framed(Wire(w))

(***************************************************************************)
(* C5 as amended: every write of the command loop is a 4-byte big-endian   *)
(* length or, right after a length that was written, a payload of exactly  *)
(* that many bytes, so that with no write failing the peer is sent a run   *)
(* of frames; the response of sendError is no frame: it is the serialized  *)
(* result and then a newline, with no length before it.                    *)
(***************************************************************************)
C5_LoopResponsesFramed ==
  \A w \in Conns :
    LET lw == SelectSeq(writes[w], LAMBDA x : x.line > 0)
        bw == WritesOf(w, 0)
    IN  /\ \A i \in 1..Len(lw) :
             IF i % 2 = 1
               THEN Len(lw[i].bytes) = 4 /\ lw[i].bytes[1] < 128
               ELSE /\ lw[i - 1].ok
                    /\ lw[i - 1].line = lw[i].line
                    /\ U32(lw[i - 1].bytes) = Len(lw[i].bytes)
        /\ (AllWritesOk(w) /\ pc[w] \in {"read", "closed"} /\ bw = <<>>) =>
             Framed(Wire(w))
        /\ bw # <<>> =>
             /\ lw = <<>> /\ pc[w] = "closed"
             /\ Len(bw) = 2
             /\ bw[1].bytes \in
                  {<<34, 29>> \o MsgInvalidParams, <<34, 29>> \o MsgConnectFailed}
             /\ bw[2].bytes = <<10>>
             /\ AllWritesOk(w) => ~Framed(Wire(w))

C5_Witness ==
  \E w \in Conns :
    /\ pc[w] = "closed" /\ AllWritesOk(w)
    /\ Len(writes[w]) = 2 /\ writes[w][1].line = 0
    /\ writes[w][1].bytes = <<34, 29>> \o MsgConnectFailed

(***************************************************************************)
(* C6: executing a statement never makes the worker return, whatever the   *)
(* statement's outcome; a statement whose execution failed (its result     *)
(* carries an error) leaves the worker running on the same open session:   *)
(* while its response is prepared and written, and afterwards when the     *)
(* worker waits for the next line, the process runs, the connection and    *)
(* the database handle are open and dbconn is the connection Connect       *)
(* established; the failure is in the error field of the statement's own   *)
(* frame; and every result, after a failure too, is what ExecuteQuery      *)
(* answers on that established connection for the statement's text.        *)
(***************************************************************************)
C6_SessionAfterFailure ==
  \A w \in Conns :
    LET u == Unmarshal(paramsJSON[w][1])
        established == Connect(u.params.Dbtype, u.params.Connstring, "ok").conn
    IN  /\ (pc[w] \in {"marshal", "stmtLen", "stmtPayload", "read"}
            /\ result[w].Error # <<>>) =>
              /\ proc = "running"
              /\ conn[w] = "open"
              /\ handle[w] = "open"
              /\ dbconn[w] = established
              /\ pc[w] = "read" =>
                   LET ws == WritesOf(w, nread[w])
                   IN  /\ Len(ws) = 2
                       /\ ws[2].bytes = Marshal(ProtoResult(result[w])).bytes
                       /\ \A i \in 1..Len(writes[w]) - 2 : writes[w][i].line < nread[w]
        /\ pc[w] = "marshal" =>
             \E s \in LoopScripts :
               result[w] = ExecuteQuery(established, query[w], s).result

C6_FailedStatementKeepsSession ==
  /\ []C6_SessionAfterFailure
  /\ [][\A w \in Conns :
          pc[w] = "exec" => pc'[w] \in {"exec", "marshal", "killed"}]_vars

\* A statement runs to a result with no error after an earlier statement
\* of the same worker failed with the query error "e".
C6_Witness ==
  \E w \in Conns :
    /\ pc[w] = "marshal" /\ nread[w] = 2
    /\ result[w].Error = <<>> /\ result[w].Rows # <<>>
    /\ Len(writes[w]) = 2
    /\ writes[w][2].bytes = <<34, 1, 101>> /\ writes[w][2].ok
    /\ handle[w] = "open"

(***************************************************************************)
(* C7: a step in which a worker terminates changes nothing of any other    *)
(* worker: not its place in Handle, its connection, its database handle,   *)
(* its session, its pending input nor what it has written.  Fails:         *)
(* postQuery ends the process with log.Fatalf when the Oracle output       *)
(* cannot be read.                                                         *)
(***************************************************************************)
C7_FailureStaysInWorker ==
  [][\A w \in Conns :
       (pc[w] \notin {"closed", "killed"} /\ pc'[w] \in {"closed", "killed"}) =>
         \A v \in Conns \ {w} :
           /\ pc'[v] = pc[v]
           /\ conn'[v] = conn[v]
           /\ handle'[v] = handle[v]
           /\ dbconn'[v] = dbconn[v]
           /\ inbuf'[v] = inbuf[v]
           /\ writes'[v] = writes[v]]_vars

(***************************************************************************)
(* C8: a worker that has terminated has left no database handle open.      *)
(* Fails: when db.Ping fails, Connect returns without closing the handle   *)
(* sql.Open gave it, and Handle has not deferred dbconn.Close() yet.       *)
(***************************************************************************)
C8_NoHandleLeftOpen ==
  \A w \in Conns : pc[w] = "closed" => handle[w] # "open"

(***************************************************************************)
(* C9: a write of the command loop that failed is the worker's last: the   *)
(* worker has stopped, has written nothing after it and has read no        *)
(* further line.  Fails: the Write of line 82 is not checked.              *)
(***************************************************************************)
C9_StopsOnWriteError ==
  \A w \in Conns :
    \A i \in 1..Len(writes[w]) :
      (writes[w][i].line > 0 /\ ~writes[w][i].ok) =>
        /\ pc[w] \in {"closed", "killed"}
        /\ i = Len(writes[w])
        /\ nread[w] = writes[w][i].line

(***************************************************************************)
(* C10: as long as no complete first line was read, and so when the worker *)
(* has closed the connection for want of one, nothing was written to the   *)
(* peer and no call was made on any backend.                               *)
(***************************************************************************)
C10_NoFirstLineNoResponse ==
  \A w \in Conns :
    paramsJSON[w] = <<>> =>
      /\ pc[w] \in {"idle", "params", "closed", "killed"}
      /\ pc[w] = "closed" => conn[w] = "closed"
      /\ writes[w] = <<>>
      /\ dbops[w] = <<>>
      /\ handle[w] = "none"
      /\ dbconn[w] = ZeroConnection
      /\ calls[w] = <<>>

\* The peer sent bytes with no newline and closed; the worker has returned.
C10_Witness ==
  \E w \in Conns :
    /\ pc[w] = "closed" /\ paramsJSON[w] = <<>>
    /\ peer[w] = "partial" /\ conn[w] = "closed"

(***************************************************************************)
(* C11: once a complete first line was read, a worker whose bootstrap      *)
(* fails has made the two writes of one sendError and no other write: the  *)
(* serialized result whose error is "Invalid connection parameters" when   *)
(* the line does not decode, "Failed to connect to database" when Connect  *)
(* fails (the engine name is unknown, sql.Open fails or db.Ping fails),    *)
(* then the newline; it has closed the connection, has called sql.Open at  *)
(* most once, has read no command line and has executed no statement; and  *)
(* nothing is written while the bootstrap is under way.                    *)
(***************************************************************************)
C11_BootstrapFailureResponse ==
  \A w \in Conns :
    paramsJSON[w] # <<>> =>
      LET u == Unmarshal(paramsJSON[w][1])
          v == ValidateDBType(u.params.Dbtype)
          response(msg) ==
            <<[line |-> 0, bytes |-> Marshal([EmptyResult EXCEPT !.Error = msg]).bytes],
              [line |-> 0, bytes |-> <<10>>]>>
          sent == SeqOf(Len(writes[w]),
                        LAMBDA i : [line |-> writes[w][i].line,
                                    bytes |-> writes[w][i].bytes])
          stopped ==
            /\ conn[w] = "closed"
            /\ nread[w] = 0
            /\ calls[w] = <<>>
            /\ ~dbconn[w].db
      IN  /\ pc[w] = "bootstrap" => writes[w] = <<>> /\ dbops[w] = <<>>
          /\ u.err =>
               /\ pc[w] \in {"bootstrap", "closed", "killed"}
               /\ pc[w] = "closed" =>
                    /\ sent = response(MsgInvalidParams)
                    /\ dbops[w] = <<>>
                    /\ stopped
          /\ (~u.err /\ v.err) =>
               /\ pc[w] \in {"bootstrap", "closed", "killed"}
               /\ pc[w] = "closed" =>
                    /\ sent = response(MsgConnectFailed)
                    /\ dbops[w] = <<>>
                    /\ stopped
          /\ (~u.err /\ ~v.err /\ pc[w] = "closed" /\ ~dbconn[w].db) =>
               /\ sent = response(MsgConnectFailed)
               /\ dbops[w] \in {<<"open">>, <<"open", "ping">>}
               /\ stopped

\* The worker has answered {"dbtype":"nosql"} and closed, both writes done
C11_Witness ==
  \E w \in Conns :
    /\ pc[w] = "closed" /\ paramsJSON[w] # <<>>
    /\ paramsJSON[w][1].dbtype = <<110, 111, 115, 113, 108>>
    /\ Len(writes[w]) = 2 /\ writes[w][1].ok /\ writes[w][2].ok
    /\ writes[w][1].bytes = LenDelim(34, MsgConnectFailed)
    /\ dbops[w] = <<>>

(***************************************************************************)
(* C12: the step in which Connect succeeds (the session is established:    *)
(* sql.Open and db.Ping answered) takes the worker from the bootstrap to   *)
(* the head of the command loop with the connection and the handle open    *)
(* and nothing written; from then on the session is the one Connect made   *)
(* for the engine the parameter line names, and nothing is written to the  *)
(* peer before the first write of the response to the first command line.  *)
(***************************************************************************)
C12_SessionReady ==
  \A w \in Conns :
    (paramsJSON[w] # <<>> /\ dbconn[w].db) =>
      LET u == Unmarshal(paramsJSON[w][1])
          v == ValidateDBType(u.params.Dbtype)
      IN  /\ ~u.err /\ ~v.err
          /\ dbconn[w].dbType = v.driver
          /\ dbops[w] # <<>>
          /\ pc[w] \in LoopPcs \cup {"closed", "killed"}
          /\ pc[w] \in LoopPcs => conn[w] = "open" /\ handle[w] = "open"
          /\ nread[w] = 0 => writes[w] = <<>>
          /\ \A i \in 1..Len(writes[w]) : writes[w][i].line >= 1
          /\ (nread[w] = 1 /\ pc[w] \in {"syncLen", "exec", "marshal", "stmtLen"}) =>
               writes[w] = <<>>

C12_ReadyWithoutResponse ==
  /\ []C12_SessionReady
  /\ [][\A w \in Conns :
          (pc[w] = "bootstrap" /\ dbconn'[w].db) =>
            /\ pc'[w] = "read"
            /\ conn'[w] = "open" /\ handle'[w] = "open"
            /\ nread'[w] = 0 /\ writes'[w] = <<>>]_vars

\* A MySQL session is ready, its first command line is in the socket
\* buffer and nothing has been written
C12_Witness ==
  \E w \in Conns :
    /\ pc[w] = "read" /\ nread[w] = 0
    /\ dbconn[w] = [db |-> TRUE, dbType |-> DriverMySQL]
    /\ inbuf[w] # <<>>
    /\ writes[w] = <<>>

(***************************************************************************)
(* C13: a result of ExecuteQuery that carries an error has no columns and  *)
(* no rows.  Fails: ExecuteQuery sets result.Columns before it scans, and  *)
(* on a Scan error or an iteration error returns the result with the       *)
(* columns and with the rows appended so far.                              *)
(***************************************************************************)
C13_ErrorHasNoColumnsNoRows ==
  \A w \in Conns :
    (pc[w] \in {"marshal", "stmtLen", "stmtPayload"} /\ result[w].Error # <<>>) =>
      /\ result[w].Columns = <<>>
      /\ result[w].Rows = <<>>

(***************************************************************************)
(* C14: every row of a result ExecuteQuery returned has as many values as  *)
(* the result has columns, so Handle's copy by column index stays within   *)
(* each row; for a result with no error the rows are the rows the driver   *)
(* delivered, as many, and the result Handle serializes has the same       *)
(* columns and the same rows of the same lengths.                          *)
(***************************************************************************)
C14_RowsMatchColumns ==
  \A w \in Conns :
    pc[w] \in {"marshal", "stmtLen", "stmtPayload"} =>
      LET r == result[w]
      IN  /\ \A k \in 1..Len(r.Rows) : Len(r.Rows[k]) = Len(r.Columns)
          /\ ~CopyPanics(r)
          /\ r.Error = <<>> =>
               /\ \E s \in ExecScripts :
                    /\ s.columns = r.Columns
                    /\ Len(s.rows) = Len(r.Rows)
               /\ ProtoResult(r).Columns = r.Columns
               /\ Len(ProtoResult(r).Rows) = Len(r.Rows)
               /\ \A k \in 1..Len(r.Rows) :
                    /\ Len(ProtoResult(r).Rows[k]) = Len(r.Columns)
                    /\ ProtoResult(r).Rows[k] = r.Rows[k]
          /\ pc[w] \in {"stmtLen", "stmtPayload"} =>
               responseBytes[w] = Marshal(ProtoResult(r)).bytes

\* A result with no error of two columns and two rows, a nil among the
\* values, has been serialized
C14_Witness ==
  \E w \in Conns :
    /\ pc[w] = "stmtLen"
    /\ result[w].Error = <<>>
    /\ Len(result[w].Columns) = 2 /\ Len(result[w].Rows) = 2
    /\ result[w].Rows[2] = <<NilText, <<49, 50>>>>
    /\ Len(responseBytes[w]) > 0

(***************************************************************************)
(* What the properties of preQuery read off a statement.                   *)
(***************************************************************************)
\* s without the spaces around it
RECURSIVE TrimSpace(_)
TrimSpace(s) ==
  IF s # <<>> /\ Head(s) = 32 THEN TrimSpace(Tail(s))
  ELSE IF s # <<>> /\ s[Len(s)] = 32 THEN TrimSpace(SubSeq(s, 1, Len(s) - 1))
  ELSE s

\* A byte of a word: a letter, a digit or the underscore
IsWordByte(b) == b \in (48..57) \cup (65..90) \cup (97..122) \cup {95}

\* The last three bytes of t are the letters e, n, d in any case
EndsInLettersEND(t) ==
  Len(t) >= 3 /\ ToUpper(SubSeq(t, Len(t) - 2, Len(t))) = <<69, 78, 68>>

\* t ends in the word END
EndsInTokenEND(t) ==
  /\ EndsInLettersEND(t)
  /\ Len(t) = 3 \/ ~IsWordByte(t[Len(t) - 3])

\* Worker w has handed its first statement to the driver: the text of the
\* line without its newline, and the text the driver was given
FirstExecuted(w) == pc[w] = "marshal" /\ nread[w] = 1 /\ Len(calls[w]) = 1

(***************************************************************************)
(* C15: on an Oracle session, a statement that without the spaces around   *)
(* it ends in the word END, in any letter case, is handed to the driver    *)
(* with one semicolon appended, and a statement whose last letters e, n, d *)
(* only end a longer word is handed over with nothing appended.  Fails:    *)
(* preQuery looks at the last three bytes only, of statements longer than  *)
(* three bytes, and trims nothing.                                         *)
(***************************************************************************)
C15_EndGetsOneSemicolon ==
  \A w \in Conns :
    (FirstExecuted(w) /\ dbconn[w].dbType = DriverOracle) =>
      LET text == query[w]
          sent == calls[w][1].sent
          t == TrimSpace(text)
      IN  /\ EndsInTokenEND(t) => sent \in {text \o <<59>>, t \o <<59>>}
          /\ (EndsInLettersEND(t) /\ ~EndsInTokenEND(t)) => sent = text

(***************************************************************************)
(* C16 as claimed: on an Oracle session, every statement ending in a       *)
(* semicolon, the statement ";" included, is handed to the driver without  *)
(* its last semicolon and otherwise unchanged.                             *)
(***************************************************************************)
C16_SemicolonStripped ==
  \A w \in Conns :
    (FirstExecuted(w) /\ dbconn[w].dbType = DriverOracle) =>
      LET text == query[w]
          sent == calls[w][1].sent
      IN  (Len(text) >= 1 /\ text[Len(text)] = 59) =>
            sent = SubSeq(text, 1, Len(text) - 1)

(***************************************************************************)
(* C16 as amended: on an Oracle session, every statement of more than one  *)
(* byte that ends in a semicolon is handed to the driver without its last  *)
(* semicolon and otherwise unchanged (of several trailing semicolons one   *)
(* is removed); the one-byte statement ";" is handed over unchanged.       *)
(***************************************************************************)
C16_SemicolonStrippedIfLonger ==
  \A w \in Conns :
    (FirstExecuted(w) /\ dbconn[w].dbType = DriverOracle) =>
      LET text == query[w]
          sent == calls[w][1].sent
      IN  /\ (Len(text) > 1 /\ text[Len(text)] = 59) =>
               /\ Len(sent) = Len(text) - 1
               /\ \A i \in 1..Len(sent) : sent[i] = text[i]
          /\ text = <<59>> => sent = <<59>>

\* The statement "x;;" went to Oracle as "x;"
C16_Witness ==
  \E w \in Conns :
    /\ FirstExecuted(w) /\ dbconn[w].dbType = DriverOracle
    /\ query[w] = <<120, 59, 59>>
    /\ calls[w][1].sent = <<120, 59>>

(***************************************************************************)
(* C19: on a session whose engine is MySQL, PostgreSQL, SQLite or SQL      *)
(* Server, executing a statement hands the driver exactly the bytes of the *)
(* line before its final newline, and the result comes back with an empty  *)
(* message, whatever output the server side holds.                         *)
(***************************************************************************)
C19_OtherEnginesNoHooks ==
  [][\A w \in Conns :
       (/\ pc[w] = "exec" /\ pc'[w] = "marshal"
        /\ dbconn[w].dbType \in
             {DriverMySQL, DriverPostgreSQL, DriverSQLite, DriverSqlServer}) =>
         /\ Len(calls'[w]) = Len(calls[w]) + 1
         /\ calls'[w][Len(calls'[w])].sent \o <<10>> = query[w]
         /\ result'[w].Message = <<>>]_vars

\* The statement "End;" went to SQL Server as it was
C19_Witness ==
  \E w \in Conns :
    /\ FirstExecuted(w) /\ dbconn[w].dbType = DriverSqlServer
    /\ query[w] = <<69, 110, 100, 59>>
    /\ calls[w][1].sent = <<69, 110, 100, 59>>
    /\ result[w].Message = <<>> /\ result[w].Error = <<>>

C20_SerializationFailureWritesNothing ==
  [][\A w \in Conns :
       /\ (/\ pc[w] = "marshal"
           /\ ~CopyPanics(result[w])
           /\ Marshal(ProtoResult(result[w])).err
           /\ pc'[w] # "marshal") =>
            /\ pc'[w] \in {"closed", "killed"}
            /\ writes'[w] = writes[w]
            /\ WritesOf(w, nread[w]) = <<>>
            /\ nread'[w] = nread[w]
            /\ calls'[w] = calls[w]
            /\ conn'[w] = "closed"
            /\ pc'[w] = "closed" => handle'[w] = "closed"
       /\ pc[w] = "closed" =>
            /\ pc'[w] = "closed"
            /\ nread'[w] = nread[w]
            /\ writes'[w] = writes[w]]_vars

\* The worker has returned from its second statement, whose result did not
\* serialize: the first statement's frame is all it wrote
C20_Witness ==
  \E w \in Conns :
    /\ pc[w] = "closed" /\ nread[w] = 2
    /\ Len(calls[w]) = 2 /\ calls[w][2].line = 2
    /\ Len(writes[w]) = 2 /\ writes[w][2].line = 1 /\ writes[w][2].ok
    /\ handle[w] = "closed" /\ conn[w] = "closed"

(***************************************************************************)
(* C18: a worker moves through Handle in the order awaiting parameters,    *)
(* bootstrap, then round the loop (read a line; execute, serialize and     *)
(* write, or write the sync frame; read again), and leaves it only by      *)
(* ending: by returning, or with the process when the process exits.  A    *)
(* worker that has ended stays ended and reads no line, calls no backend   *)
(* and writes nothing any more.  And when every read, statement execution  *)
(* and write completes in the end, a worker whose peer has closed its side *)
(* (having sent finitely many lines) ends in the end.                      *)
(***************************************************************************)
PcSteps ==
  {<<"idle", "params">>,
   <<"params", "bootstrap">>, <<"params", "closed">>,
   <<"bootstrap", "read">>, <<"bootstrap", "closed">>,
   <<"read", "syncLen">>, <<"read", "exec">>, <<"read", "closed">>,
   <<"syncLen", "syncPayload">>, <<"syncLen", "closed">>,
   <<"syncPayload", "read">>,
   <<"exec", "marshal">>,
   <<"marshal", "stmtLen">>, <<"marshal", "closed">>,
   <<"stmtLen", "stmtPayload">>, <<"stmtLen", "closed">>,
   <<"stmtPayload", "read">>, <<"stmtPayload", "closed">>}
    \cup {<<p, "killed">> : p \in {"params", "bootstrap"} \cup LoopPcs}

Ended(w) == pc[w] \in {"closed", "killed"}

C18_WorkerLifeCycle ==
  /\ [][\A w \in Conns :
          /\ pc'[w] # pc[w] => <<pc[w], pc'[w]>> \in PcSteps
          /\ Ended(w) =>
               /\ pc'[w] = pc[w]
               /\ nread'[w] = nread[w]
               /\ paramsJSON'[w] = paramsJSON[w]
               /\ dbops'[w] = dbops[w]
               /\ calls'[w] = calls[w]
               /\ writes'[w] = writes[w]]_vars
  /\ \A w \in Conns : (peer[w] # "open") ~> Ended(w)

\* The peer sent its lines and closed its side, and the worker, having
\* answered each line, returned on io.EOF
C18_Witness ==
  \E w \in Conns :
    /\ pc[w] = "closed" /\ peer[w] = "closed"
    /\ nsent[w] = 3 /\ nread[w] = 2
    /\ Len(writes[w]) = 4 /\ AllWritesOk(w)
    /\ handle[w] = "closed"

====
